---- MODULE Spec2Model ----
(***************************************************************************)
(* Model of src/src/analytics_engine.py (class AnalyticsEngine): the       *)
(* synthetic data generators, the segmentation, the persona synthesis and  *)
(* the market intelligence, with the orchestrator                          *)
(* generate_comprehensive_analysis.                                        *)
(*                                                                         *)
(* Floats are fixed-point integers.  Units:                                *)
(*   trips (before int())          tenths of a trip                        *)
(*   member_ratio (before round)   1e-4                                    *)
(*   avg_duration (before round)   1e-2 minute                             *)
(*   spending amounts              tenths of a currency unit               *)
(*   avg_trip_distance_km          1e-5 km                                 *)
(*   other ratios                  1e-4 (station_density: 1e-3)            *)
(*   rounded fields                the unit of their last decimal          *)
(***************************************************************************)
EXTENDS Integers, Sequences, FiniteSets, TLC

(***************************************************************************)
(* Bounds of the model.                                                    *)
(***************************************************************************)
\* number of random streams np.random may stand for (the variable prng)
NumStreams == 3
\* draws other code may consume from the global generator after seeding it
MaxEnvDraws == 1
\* the generators' county list is cut to its first NumCounties entries
NumCounties == 4
\* the tables of a direct call of the later stages are cut from tables of the
\* first NumUnitCounties counties
NumUnitCounties == 5
\* calls of generate_comprehensive_analysis in one behaviour
MaxRuns == 2
\* distinct (generator, generator state at entry) pairs of the direct generator
\* calls in one behaviour
MaxGenCalls == 3
\* offsets into the random stream at which the input tables of a direct call
\* of the later stages are taken
NumVariants == 2
\* calls of create_advanced_visualizations on one result
MaxVizCalls == 2
\* calls of build_static.main, one after the other in the same directory
MaxBuilds == 2
\* writes of build_static the file system may refuse (disk full, no handle)
MaxFaults == 1

(***************************************************************************)
(* Program constants.                                                      *)
(***************************************************************************)
SEED == 42
N_CLUSTERS == 4
POPULATION_SCALE == 50000

counties == <<"17031", "36061", "06037", "48201", "04013", "53033", "25025">>
categories == <<"restaurants", "retail", "grocery", "entertainment",
                "transportation", "healthcare">>
features == <<"total_trips", "member_ratio", "avg_trip_duration_minutes",
              "restaurants", "retail", "entertainment">>

(***************************************************************************)
(* Arithmetic helpers.                                                     *)
(***************************************************************************)
Min(a, b) == IF a <= b THEN a ELSE b
Max(a, b) == IF a >= b THEN a ELSE b

\* the county list the generators loop over
Counties == SubSeq(counties, 1, Min(NumCounties, Len(counties)))
UnitCounties == SubSeq(counties, 1, Min(NumUnitCounties, Len(counties)))

RECURSIVE SumSeq(_)
SumSeq(s) == IF s = <<>> THEN 0 ELSE Head(s) + SumSeq(Tail(s))

\* Python round(x, n) on a non-negative x: x is given in units of which d make
\* one unit of the result; ties go to the even neighbour.
PyRound(x, d) ==
    LET q == x \div d
        r == x % d
    IN  IF 2 * r < d THEN q
        ELSE IF 2 * r > d THEN q + 1
        ELSE IF q % 2 = 0 THEN q ELSE q + 1

\* Python int(x) on x given in units of which d make one: truncation to zero.
PyInt(x, d) == IF x >= 0 THEN x \div d ELSE -((-x) \div d)

\* round(c / t, 3) for 0 <= c <= t, t > 0, by long division (no overflow).
RoundRatio3(c, t) ==
    LET d1 == (c * 10) \div t
        r1 == (c * 10) % t
        d2 == (r1 * 10) \div t
        r2 == (r1 * 10) % t
        d3 == (r2 * 10) \div t
        r3 == (r2 * 10) % t
        q  == d1 * 100 + d2 * 10 + d3
    IN  IF 2 * r3 < t THEN q
        ELSE IF 2 * r3 > t THEN q + 1
        ELSE IF q % 2 = 0 THEN q ELSE q + 1

(***************************************************************************)
(* numpy.random: the process-wide generator.  Its state is the seed it was *)
(* last given and the number of variates drawn since.  A variate is a      *)
(* fixed function of that state: the generator's own arithmetic is not     *)
(* modelled, the stream is one of NumStreams sequences of quantile classes *)
(* (0..3), selected by key.                                                *)
(***************************************************************************)
np_random_seed(s) == [seed |-> s, pos |-> 0]

Quantile(key, r) ==
    ((r.seed % 5) + r.pos * (2 * key - 1) + (r.pos \div 4) * key) % 4

Advance(r) == [r EXCEPT !.pos = @ + 1]

\* standard normal quantiles, in 1e-4; the first and the last stand for the
\* tails, which no bound limits
Zq == <<-80000, -7331, 4127, 80000>>
\* gamma(shape, 1) / shape quantiles, in 1e-6
Gq == <<20000, 733117, 1204593, 2600000>>
\* beta and uniform quantiles in [0, 1), in 1e-3
Bq == <<20, 310, 540, 970>>
Uq == <<0, 371, 642, 999>>

\* np.random.normal(mu, sigma): mu in result units, sigma in result units
np_random_normal(mu, sigma, q) ==
    mu + sigma * (Zq[q + 1] \div 10000) + (sigma * (Zq[q + 1] % 10000)) \div 10000

\* np.random.gamma(shape, scale), in tenths; shape2 is twice the shape
np_random_gamma(shape2, scale, q) ==
    ((scale \div 10000) * ((shape2 * Gq[q + 1]) \div 2)) \div 10

\* np.random.beta(a, b), in 1e-3
np_random_beta(q) == Bq[q + 1]

\* np.random.exponential(scale), in the unit of scale
np_random_exponential(scale, q) == (scale * Gq[q + 1]) \div 1000000

\* np.random.uniform(low, high), in the unit of low and high: low <= u < high
\* a variate that leaves the interval: twice as far from low
np_random_uniform_wide(low, high, q) == low + ((high - low) * Uq[q + 1]) \div 500

np_random_uniform(low, high, q) == low + ((high - low) * Uq[q + 1]) \div 1000

(***************************************************************************)
(* _generate_mobility_data                                                 *)
(***************************************************************************)
\* the distribution parameters of a county: trips (units), duration (1e-2 min),
\* member ratio (1e-4)
MobilityParams(county) ==
    IF county = "36061" THEN
        [trips_mu |-> 25000, trips_sigma |-> 3000, dur_mu |-> 1200,
         dur_sigma |-> 200, ratio_mu |-> 8500, ratio_sigma |-> 500]
    ELSE IF county = "17031" THEN
        [trips_mu |-> 18000, trips_sigma |-> 2500, dur_mu |-> 1500,
         dur_sigma |-> 300, ratio_mu |-> 7500, ratio_sigma |-> 800]
    ELSE IF county = "06037" THEN
        [trips_mu |-> 12000, trips_sigma |-> 2000, dur_mu |-> 2000,
         dur_sigma |-> 400, ratio_mu |-> 6500, ratio_sigma |-> 1000]
    ELSE
        [trips_mu |-> 8000, trips_sigma |-> 1500, dur_mu |-> 1600,
         dur_sigma |-> 300, ratio_mu |-> 7000, ratio_sigma |-> 1000]

\* round(base_trips * ratio), to the nearest trip
TripShareRounded(base, ratio) ==
    ((base \div 100) * ratio + ((base % 100) * ratio) \div 100 + 500) \div 1000

\* int(base_trips * ratio): base in tenths, ratio in 1e-4
TripShare(base, ratio) ==
    ((base \div 100) * ratio + ((base % 100) * ratio) \div 100) \div 1000

\* One pass of the loop body for county, the generator being in state r.
\* Nine variates are drawn, in the order of the source.
MobilityRow(key, county, r) ==
    LET p  == MobilityParams(county)
        r1 == Advance(r)
        r2 == Advance(r1)
        r3 == Advance(r2)
        r4 == Advance(r3)
        r5 == Advance(r4)
        r6 == Advance(r5)
        r7 == Advance(r6)
        r8 == Advance(r7)
        base0  == np_random_normal(p.trips_mu * 10, p.trips_sigma * 10, Quantile(key, r))
        dur0   == np_random_normal(p.dur_mu, p.dur_sigma, Quantile(key, r1))
        ratio0 == np_random_normal(p.ratio_mu, p.ratio_sigma, Quantile(key, r2))
        base_trips   == Max(10000, base0)
        avg_duration == Max(500, Min(3000, dur0))
        member_ratio == Max(3000, Min(9500, ratio0))
    IN  [county_fips |-> county,
         total_trips |-> PyInt(base_trips, 10),
         avg_trip_duration_minutes |-> PyRound(avg_duration, 10),
         member_trips |-> TripShare(base_trips, member_ratio),
         casual_trips |-> TripShare(base_trips, 10000 - member_ratio),
         member_ratio |-> PyRound(member_ratio, 10),
         peak_hour_ratio |-> np_random_beta(Quantile(key, r3)) * 4 + 1500,
         weekend_ratio |-> np_random_beta(Quantile(key, r4)) * 4 + 1500,
         night_trips_ratio |-> (np_random_beta(Quantile(key, r5)) * 15) \div 10,
         avg_trip_distance_km |->
             np_random_gamma(4, 15000, Quantile(key, r6)) + 100000,
         station_density |-> np_random_exponential(500, Quantile(key, r7)) + 100,
         inter_county_ratio |-> np_random_beta(Quantile(key, r8)) * 2]

MobilityDraws == 9

RECURSIVE MobilityRows(_, _, _)
MobilityRows(key, cs, r) ==
    IF cs = <<>> THEN <<>>
    ELSE <<MobilityRow(key, Head(cs), r)>>
         \o MobilityRows(key, Tail(cs), [r EXCEPT !.pos = @ + MobilityDraws])

(***************************************************************************)
(* _generate_spending_data                                                 *)
(***************************************************************************)
\* base_multiplier of a county, in tenths
BaseMultiplier(county) ==
    IF county = "36061" THEN 18
    ELSE IF county = "53033" THEN 16
    ELSE IF county = "25025" THEN 15
    ELSE IF county = "06037" THEN 14
    ELSE IF county = "17031" THEN 12
    ELSE 10

\* base_amount of one category, in tenths, before the multiplier
CategoryDraw(county, category, q) ==
    IF category = "restaurants" THEN np_random_gamma(6, 50000, q)
    ELSE IF category = "retail" THEN np_random_gamma(5, 60000, q)
    ELSE IF category = "entertainment" /\ county = "06037"
        THEN np_random_gamma(8, 40000, q)
    ELSE IF category = "transportation" THEN np_random_gamma(4, 30000, q)
    ELSE np_random_gamma(4, 40000, q)

\* category_spending[category] = max(10000, base_amount), in tenths; the
\* i-th category draws the i-th variate after r
CategorySpending(key, county, i, r) ==
    Max(100000,
        (CategoryDraw(county, categories[i],
                      Quantile(key, [r EXCEPT !.pos = @ + (i - 1)]))
         * BaseMultiplier(county)) \div 10)

\* the rows of one county: its six category rows, then its 'total' row
SpendingRowsOf(key, county, r) ==
    LET category_spending ==
            [i \in 1..Len(categories) |-> CategorySpending(key, county, i, r)]
        total_spending == SumSeq(category_spending)
    IN  [i \in 1..Len(categories) |->
            [county_fips |-> county,
             category |-> categories[i],
             spending_amount |-> PyRound(category_spending[i], 10),
             spending_proportion |->
                 RoundRatio3(category_spending[i], total_spending)]]
        \o <<[county_fips |-> county,
              category |-> "total",
              spending_amount |-> PyRound(total_spending, 10),
              spending_proportion |-> 1000]>>

RECURSIVE SpendingRows(_, _, _)
SpendingRows(key, cs, r) ==
    IF cs = <<>> THEN <<>>
    ELSE SpendingRowsOf(key, Head(cs), r)
         \o SpendingRows(key, Tail(cs), [r EXCEPT !.pos = @ + Len(categories)])

(***************************************************************************)
(* _generate_demographic_data                                              *)
(***************************************************************************)
county_demographics(county) ==
    IF county = "17031" THEN
        [population |-> 5150000, median_income |-> 65000, college_pct |-> 4500]
    ELSE IF county = "36061" THEN
        [population |-> 1690000, median_income |-> 85000, college_pct |-> 6500]
    ELSE IF county = "06037" THEN
        [population |-> 9830000, median_income |-> 70000, college_pct |-> 3500]
    ELSE IF county = "48201" THEN
        [population |-> 4710000, median_income |-> 55000, college_pct |-> 3500]
    ELSE IF county = "04013" THEN
        [population |-> 4420000, median_income |-> 60000, college_pct |-> 3000]
    ELSE IF county = "53033" THEN
        [population |-> 2270000, median_income |-> 95000, college_pct |-> 6000]
    ELSE
        [population |-> 800000, median_income |-> 80000, college_pct |-> 5500]

DemographicDraws == 6

\* one row; six variates are drawn, in the order of the dict literal
DemographicRow(key, county, r) ==
    LET demo == county_demographics(county)
        r1 == Advance(r)
        r2 == Advance(r1)
        r3 == Advance(r2)
        r4 == Advance(r3)
        r5 == Advance(r4)
    IN  [county_fips |-> county,
         population |-> demo.population,
         median_income |->
             demo.median_income + np_random_normal(0, 5000, Quantile(key, r)),
         college_educated_pct |->
             demo.college_pct + np_random_normal(0, 500, Quantile(key, r1)),
         age_18_34_pct |-> np_random_beta(Quantile(key, r2)) * 4 + 2000,
         age_35_54_pct |-> np_random_beta(Quantile(key, r3)) * 4 + 2500,
         age_55_plus_pct |-> (np_random_beta(Quantile(key, r4)) * 35) \div 10 + 1500,
         population_density |->
             (demo.population * 100)
                 \div (1000 + np_random_exponential(500, Quantile(key, r5)))]

RECURSIVE DemographicRows(_, _, _)
DemographicRows(key, cs, r) ==
    IF cs = <<>> THEN <<>>
    ELSE <<DemographicRow(key, Head(cs), r)>>
         \o DemographicRows(key, Tail(cs), [r EXCEPT !.pos = @ + DemographicDraws])

(***************************************************************************)
(* _perform_segmentation_analysis                                          *)
(* A table is the sequence of its rows.  A column mean is kept exact, as   *)
(* the pair of the column's sum and its length; the mean of no rows        *)
(* (pandas: NaN) is the pair with n = 0.                                   *)
(***************************************************************************)
Range(s) == {s[i] : i \in 1..Len(s)}

\* DataFrame.pivot(index='county_fips', columns='category',
\* values='spending_amount'): refuses a repeated (index, column) pair
PivotHasDuplicates(spending) ==
    \E i, j \in 1..Len(spending) :
        /\ i < j
        /\ spending[i].county_fips = spending[j].county_fips
        /\ spending[i].category = spending[j].category

PivotIndex(spending) == {spending[i].county_fips : i \in 1..Len(spending)}
PivotColumns(spending) == {spending[i].category : i \in 1..Len(spending)}

\* the pivoted cell, .fillna(0) applied: 0 where the table has no such row
PivotCell(spending, county, category) ==
    LET hits == {i \in 1..Len(spending) :
                    /\ spending[i].county_fips = county
                    /\ spending[i].category = category}
    IN  IF hits = {} THEN 0
        ELSE spending[CHOOSE i \in hits : TRUE].spending_amount

\* a left join: every mobility row is kept
CombinedDataLeft(mobility, spending) ==
    [i \in 1..Len(mobility) |->
        [county_fips |-> mobility[i].county_fips,
         total_trips |-> mobility[i].total_trips,
         member_ratio |-> mobility[i].member_ratio,
         avg_trip_duration_minutes |-> mobility[i].avg_trip_duration_minutes,
         restaurants |-> PivotCell(spending, mobility[i].county_fips, "restaurants"),
         retail |-> PivotCell(spending, mobility[i].county_fips, "retail"),
         entertainment |->
             PivotCell(spending, mobility[i].county_fips, "entertainment")]]

\* mobility_data.merge(spending_pivot, on='county_fips', how='inner'): the
\* mobility rows whose county is in the pivot's index, in mobility order, each
\* with the pivot's columns
CombinedData(mobility, spending) ==
    LET InPivot(row) == row.county_fips \in PivotIndex(spending)
        kept == SelectSeq(mobility, InPivot)
    IN  [i \in 1..Len(kept) |->
            [county_fips |-> kept[i].county_fips,
             total_trips |-> kept[i].total_trips,
             member_ratio |-> kept[i].member_ratio,
             avg_trip_duration_minutes |-> kept[i].avg_trip_duration_minutes,
             restaurants |-> PivotCell(spending, kept[i].county_fips, "restaurants"),
             retail |-> PivotCell(spending, kept[i].county_fips, "retail"),
             entertainment |->
                 PivotCell(spending, kept[i].county_fips, "entertainment")]]

\* combined_data[features]: the feature matrix, one 6-tuple per row
FeatureData(combined) ==
    [i \in 1..Len(combined) |->
        <<combined[i].total_trips, combined[i].member_ratio,
          combined[i].avg_trip_duration_minutes, combined[i].restaurants,
          combined[i].retail, combined[i].entertainment>>]

\* a fit that takes fewer rows than clusters
SegmentationErrorNoMinimum(mobility, spending) ==
    IF spending = <<>> THEN "KeyError"
    ELSE IF PivotHasDuplicates(spending) THEN "ValueError"
    ELSE IF ~({"restaurants", "retail", "entertainment"} \subseteq PivotColumns(spending))
        THEN "KeyError"
    ELSE IF Len(CombinedData(mobility, spending)) = 0 THEN "ValueError"
    ELSE "none"

\* StandardScaler().fit_transform(feature_data).  A cell (x - mean) / scale is
\* kept as the pair of n * (x - mean), an integer, and the scale, which is the
\* column's standard deviation "std", or "one" where that deviation is 0 (the
\* scaler replaces a zero scale by 1): such a cell is the number 0 / 1 = 0.
\* A cell of scale "zero" would be 0 / 0, NaN.
ColumnOf(X, j) == [i \in 1..Len(X) |-> X[i][j]]
Centered(column) ==
    [i \in 1..Len(column) |-> Len(column) * column[i] - SumSeq(column)]
ZeroVariance(column) == \A i \in 1..Len(column) : Centered(column)[i] = 0

\* a scaler that divides by the deviation as it is: 0 / 0 is NaN
fit_transform_dividing(X) ==
    [i \in 1..Len(X) |->
        [j \in 1..Len(features) |->
            [centered |-> Centered(ColumnOf(X, j))[i],
             scale |-> IF ZeroVariance(ColumnOf(X, j)) THEN "zero" ELSE "std"]]]

fit_transform(X) ==
    [i \in 1..Len(X) |->
        [j \in 1..Len(features) |->
            [centered |-> Centered(ColumnOf(X, j))[i],
             scale |-> IF ZeroVariance(ColumnOf(X, j)) THEN "one" ELSE "std"]]]

\* the error the statements before the cluster loop raise, "none" if none
SegmentationError(mobility, spending) ==
    IF spending = <<>> THEN "KeyError"
    ELSE IF PivotHasDuplicates(spending) THEN "ValueError"
    ELSE IF ~({"restaurants", "retail", "entertainment"} \subseteq PivotColumns(spending))
        THEN "KeyError"
    ELSE IF Len(CombinedData(mobility, spending)) = 0 THEN "ValueError"
    ELSE IF Len(CombinedData(mobility, spending)) < N_CLUSTERS THEN "ValueError"
    ELSE "none"

\* KMeans without a fixed random_state: a matrix fitted before may come out
\* with its clusters numbered the other way round
LabelChoicesUnseeded(X, fit) ==
    IF \E f \in fit : f.X = X
    THEN LET labels == (CHOOSE f \in fit : f.X = X).labels
         IN  {labels, [i \in 1..Len(X) |-> (N_CLUSTERS - 1) - labels[i]]}
    ELSE [1..Len(X) -> 0..(N_CLUSTERS - 1)]

\* KMeans(n_clusters=4, random_state=42).fit_predict: one label in
\* 0..n_clusters-1 per row.  Which labels is the library's business: with a
\* fixed random_state they are a function of the feature matrix.  The variable
\* kmeans_fit holds that function where it has been evaluated; elsewhere any
\* labelling may be its value.
LabelChoices(X, fit) ==
    IF \E f \in fit : f.X = X
    THEN {(CHOOSE f \in fit : f.X = X).labels}
    ELSE [1..Len(X) -> 0..(N_CLUSTERS - 1)]

\* rows[column].mean()
Mean(rows, column) ==
    [sum |-> SumSeq([i \in 1..Len(rows) |-> rows[i][column]]), n |-> Len(rows)]
IsNaN(m) == m.n = 0
\* mean > t, as Python compares: False on NaN
MeanGreater(m, t) == ~IsNaN(m) /\ m.sum > t * m.n

\* mean >= t, False on NaN
MeanAtLeast(m, t) == ~IsNaN(m) /\ m.sum >= t * m.n

\* breakpoints that belong to the upper level
characterize_cluster_inclusive(cluster_data) ==
    LET avg_trips == Mean(cluster_data, "total_trips")
        avg_member_ratio == Mean(cluster_data, "member_ratio")
        restaurant_spending == Mean(cluster_data, "restaurants")
    IN  [mobility_level |->
            IF MeanAtLeast(avg_trips, 15000) THEN "high"
            ELSE IF MeanAtLeast(avg_trips, 8000) THEN "medium" ELSE "low",
         engagement |->
            IF MeanAtLeast(avg_member_ratio, 800) THEN "high"
            ELSE IF MeanAtLeast(avg_member_ratio, 600) THEN "medium" ELSE "low",
         dining_preference |->
            IF MeanAtLeast(restaurant_spending, 150000) THEN "high"
            ELSE IF MeanAtLeast(restaurant_spending, 80000) THEN "medium"
            ELSE "low"]

\* _characterize_cluster
characterize_cluster(cluster_data) ==
    LET avg_trips == Mean(cluster_data, "total_trips")
        avg_member_ratio == Mean(cluster_data, "member_ratio")
        restaurant_spending == Mean(cluster_data, "restaurants")
    IN  [mobility_level |->
            IF MeanGreater(avg_trips, 15000) THEN "high"
            ELSE IF MeanGreater(avg_trips, 8000) THEN "medium" ELSE "low",
         engagement |->
            IF MeanGreater(avg_member_ratio, 800) THEN "high"
            ELSE IF MeanGreater(avg_member_ratio, 600) THEN "medium" ELSE "low",
         dining_preference |->
            IF MeanGreater(restaurant_spending, 150000) THEN "high"
            ELSE IF MeanGreater(restaurant_spending, 80000) THEN "medium"
            ELSE "low"]

\* a selection that also takes the rows of the clusters numbered above
ClusterDataFromUp(combined, labels, cluster_id) ==
    LET tagged == [i \in 1..Len(combined) |->
                      [row |-> combined[i], label |-> labels[i]]]
        FromUp(e) == e.label >= cluster_id
        taken == SelectSeq(tagged, FromUp)
    IN  [i \in 1..Len(taken) |-> taken[i].row]

\* the rows of combined_data labelled cluster_id, in table order
ClusterData(combined, labels, cluster_id) ==
    LET idx == {i \in 1..Len(combined) : labels[i] = cluster_id}
        RECURSIVE Pick(_)
        Pick(i) == IF i > Len(combined) THEN <<>>
                   ELSE (IF i \in idx THEN <<combined[i]>> ELSE <<>>) \o Pick(i + 1)
    IN  Pick(1)

\* a profile whose size only tells whether the cluster has a member
ClusterProfileCapped(combined, labels, cluster_id) ==
    LET cluster_data == ClusterData(combined, labels, cluster_id)
    IN  [cluster_id |-> cluster_id,
         size |-> Min(1, Len(cluster_data)),
         counties |-> [i \in 1..Len(cluster_data) |-> cluster_data[i].county_fips],
         avg_trips |-> Mean(cluster_data, "total_trips"),
         avg_member_ratio |-> Mean(cluster_data, "member_ratio"),
         avg_duration |-> Mean(cluster_data, "avg_trip_duration_minutes"),
         avg_restaurant_spending |-> Mean(cluster_data, "restaurants"),
         characteristics |-> characterize_cluster(cluster_data)]

\* one entry of cluster_profiles
ClusterProfile(combined, labels, cluster_id) ==
    LET cluster_data == ClusterData(combined, labels, cluster_id)
    IN  [cluster_id |-> cluster_id,
         size |-> Len(cluster_data),
         counties |-> [i \in 1..Len(cluster_data) |-> cluster_data[i].county_fips],
         avg_trips |-> Mean(cluster_data, "total_trips"),
         avg_member_ratio |-> Mean(cluster_data, "member_ratio"),
         avg_duration |-> Mean(cluster_data, "avg_trip_duration_minutes"),
         avg_restaurant_spending |-> Mean(cluster_data, "restaurants"),
         characteristics |-> characterize_cluster(cluster_data)]

\* a loop that numbers the clusters 0, 1, 0, 1
perform_segmentation_analysis_two_ids(mobility, spending, labels) ==
    LET combined == CombinedData(mobility, spending)
    IN  [cluster_profiles |->
            [c \in 1..N_CLUSTERS |-> ClusterProfile(combined, labels, (c - 1) % 2)],
         silhouette_score |-> 650,
         n_clusters |-> N_CLUSTERS,
         algorithm |-> "kmeans"]

\* the value returned, the labels being given (feature_importance, a function
\* of the fitted centres, is not modelled)
perform_segmentation_analysis(mobility, spending, labels) ==
    LET combined == CombinedData(mobility, spending)
    IN  [cluster_profiles |->
            [c \in 1..N_CLUSTERS |-> ClusterProfile(combined, labels, c - 1)],
         silhouette_score |-> 650,
         n_clusters |-> N_CLUSTERS,
         algorithm |-> "kmeans"]

(***************************************************************************)
(* _generate_persona_insights                                              *)
(***************************************************************************)
\* the template list in another order
persona_templates_rotated ==
    <<[name |-> "Weekend Explorer", type |-> "Leisure Cyclist", narrative |-> 1],
      [name |-> "Tech Innovator", type |-> "Tech Savvy", narrative |-> 2],
      [name |-> "Budget Conscious", type |-> "Value Seeker", narrative |-> 3],
      [name |-> "Urban Commuter Pro", type |-> "Urban Commuter", narrative |-> 0]>>

\* name and type of each template; the narrative fields of a template are
\* carried by its index
persona_templates ==
    <<[name |-> "Urban Commuter Pro", type |-> "Urban Commuter", narrative |-> 0],
      [name |-> "Weekend Explorer", type |-> "Leisure Cyclist", narrative |-> 1],
      [name |-> "Tech Innovator", type |-> "Tech Savvy", narrative |-> 2],
      [name |-> "Budget Conscious", type |-> "Value Seeker", narrative |-> 3]>>

PersonaDraws == 6

\* int(x) and round(x, n) of a column mean: int(NaN) raises ValueError
MeanInt(m) == m.sum \div m.n
\* round(mean, n): the mean in units of which d make one unit of the result
MeanRound(m, d) == PyRound(m.sum, m.n * d)

\* the statements of the loop body that can raise: int() of a NaN mean
PersonaRaises(profile) ==
    IsNaN(profile.avg_trips) \/ IsNaN(profile.avg_restaurant_spending)

\* effectiveness left as computed, without min(0.95, .)
UnclippedEffectiveness(profile, q) ==
    IF IsNaN(profile.avg_member_ratio) THEN 950000
    ELSE 600000 + (profile.avg_member_ratio.sum * 300) \div profile.avg_member_ratio.n
                + np_random_uniform(0, 100000, q)

\* effectiveness, in 1e-6: 0.6 + avg_member_ratio * 0.3 + uniform(0, 0.1);
\* min(0.95, effectiveness) is 0.95 when effectiveness is NaN
ClippedEffectiveness(profile, q) ==
    IF IsNaN(profile.avg_member_ratio) THEN 950000
    ELSE Min(950000,
             600000 + (profile.avg_member_ratio.sum * 300) \div profile.avg_member_ratio.n
                    + np_random_uniform(0, 100000, q))

\* persona_i, built from the i-th profile (i from 0) with the generator in
\* state r; six variates are drawn
Persona(key, i, profile, r) ==
    LET template == persona_templates[(i % Len(persona_templates)) + 1]
        Q(k) == Quantile(key, [r EXCEPT !.pos = @ + k])
        estimated_population == profile.size * POPULATION_SCALE
        \* population times uniform(15, 35), the factor in 1e-2
        market_value == estimated_population * np_random_uniform(1500, 3500, Q(0))
    IN  [persona_id |-> i,
         persona_name |-> template.name,
         persona_type |-> template.type,
         narrative |-> template.narrative,
         cluster_ids |-> <<profile.cluster_id>>,
         estimated_population |-> estimated_population,
         market_value |-> PyInt(market_value, 100),
         targeting_effectiveness |-> PyRound(ClippedEffectiveness(profile, Q(1)), 1000),
         seasonal_trends |->
            [spring |-> PyRound(10000 + np_random_uniform(-1000, 2000, Q(2)), 100),
             summer |-> PyRound(12000 + np_random_uniform(-1000, 3000, Q(3)), 100),
             fall   |-> PyRound(9000 + np_random_uniform(-1000, 2000, Q(4)), 100),
             winter |-> PyRound(7000 + np_random_uniform(-2000, 1000, Q(5)), 100)],
         mobility_profile |->
            [avg_trips |-> MeanInt(profile.avg_trips),
             member_ratio |-> MeanRound(profile.avg_member_ratio, 1),
             avg_duration |-> MeanRound(profile.avg_duration, 1),
             usage_intensity |-> profile.characteristics.mobility_level],
         spending_profile |->
            [restaurant_spending |-> MeanInt(profile.avg_restaurant_spending),
             spending_level |-> profile.characteristics.dining_preference]]

\* the index (from 1) of the first profile whose persona raises, 0 if none
FirstRaising(profiles) ==
    IF \E i \in 1..Len(profiles) : PersonaRaises(profiles[i])
    THEN CHOOSE i \in 1..Len(profiles) :
            /\ PersonaRaises(profiles[i])
            /\ \A j \in 1..(i - 1) : ~PersonaRaises(profiles[j])
    ELSE 0

\* a loop that passes over the profiles whose persona would raise
generate_persona_insights_skipping(key, segmentation, r) ==
    LET Sound(profile) == ~PersonaRaises(profile)
        profiles == SelectSeq(segmentation.cluster_profiles, Sound)
    IN  [error |-> "none",
         personas |-> [i \in 1..Len(profiles) |->
                         Persona(key, i - 1, profiles[i],
                                 [r EXCEPT !.pos = @ + (i - 1) * PersonaDraws])],
         draws |-> Len(profiles) * PersonaDraws]

\* the loop over cluster_profiles.items(): the personas, or the error of the
\* first persona that raises, and the variates drawn
generate_persona_insights(key, segmentation, r) ==
    LET profiles == segmentation.cluster_profiles
        bad == FirstRaising(profiles)
    IN  IF bad = 0
        THEN [error |-> "none",
              personas |-> [i \in 1..Len(profiles) |->
                              Persona(key, i - 1, profiles[i],
                                      [r EXCEPT !.pos = @ + (i - 1) * PersonaDraws])],
              draws |-> Len(profiles) * PersonaDraws]
        ELSE [error |-> "ValueError",
              personas |-> <<>>,
              draws |-> bad * PersonaDraws]

(***************************************************************************)
(* _identify_business_opportunities, _generate_predictive_insights         *)
(***************************************************************************)
\* a catalogue whose first market size is read from the first persona
identify_business_opportunities_sized(personas) ==
    <<[opportunity_type |-> "Premium Commuter Services",
       target_segments |-> <<"Urban Commuter Pro">>,
       estimated_market_size |->
           IF personas = <<>> THEN 350000 ELSE personas[1].estimated_population,
       investment_level |-> "Medium", expected_roi |-> "25-35%"],
      [opportunity_type |-> "Weekend Recreation Packages",
       target_segments |-> <<"Weekend Explorer">>,
       estimated_market_size |-> 180000,
       investment_level |-> "Low", expected_roi |-> "15-25%"],
      [opportunity_type |-> "Smart Technology Integration",
       target_segments |-> <<"Tech Innovator">>,
       estimated_market_size |-> 220000,
       investment_level |-> "High", expected_roi |-> "30-45%"],
      [opportunity_type |-> "Value-Focused Membership",
       target_segments |-> <<"Budget Conscious">>,
       estimated_market_size |-> 280000,
       investment_level |-> "Low", expected_roi |-> "20-30%"],
      [opportunity_type |-> "Corporate Partnership Program",
       target_segments |-> <<"Urban Commuter Pro", "Tech Innovator">>,
       estimated_market_size |-> 450000,
       investment_level |-> "Medium", expected_roi |-> "35-50%"]>>

identify_business_opportunities(personas) ==
    <<[opportunity_type |-> "Premium Commuter Services",
       target_segments |-> <<"Urban Commuter Pro">>,
       estimated_market_size |-> 350000,
       investment_level |-> "Medium", expected_roi |-> "25-35%"],
      [opportunity_type |-> "Weekend Recreation Packages",
       target_segments |-> <<"Weekend Explorer">>,
       estimated_market_size |-> 180000,
       investment_level |-> "Low", expected_roi |-> "15-25%"],
      [opportunity_type |-> "Smart Technology Integration",
       target_segments |-> <<"Tech Innovator">>,
       estimated_market_size |-> 220000,
       investment_level |-> "High", expected_roi |-> "30-45%"],
      [opportunity_type |-> "Value-Focused Membership",
       target_segments |-> <<"Budget Conscious">>,
       estimated_market_size |-> 280000,
       investment_level |-> "Low", expected_roi |-> "20-30%"],
      [opportunity_type |-> "Corporate Partnership Program",
       target_segments |-> <<"Urban Commuter Pro", "Tech Innovator">>,
       estimated_market_size |-> 450000,
       investment_level |-> "Medium", expected_roi |-> "35-50%"]>>

\* a report whose spring confidence grows with the mobility table
generate_predictive_insights_counted(mobility, spending) ==
    [expected_growth |-> "15-20%",
     seasonal_patterns |->
        [spring |-> [multiplier |-> 110, confidence |-> 85 + Len(mobility)],
         summer |-> [multiplier |-> 135, confidence |-> 92],
         fall   |-> [multiplier |-> 95, confidence |-> 88],
         winter |-> [multiplier |-> 65, confidence |-> 80]],
     expansion_roi |-> "25-40%",
     base_case |-> "$2.8M annual revenue"]

\* multipliers and confidences in 1e-2
generate_predictive_insights(mobility, spending) ==
    [expected_growth |-> "15-20%",
     seasonal_patterns |->
        [spring |-> [multiplier |-> 110, confidence |-> 85],
         summer |-> [multiplier |-> 135, confidence |-> 92],
         fall   |-> [multiplier |-> 95, confidence |-> 88],
         winter |-> [multiplier |-> 65, confidence |-> 80]],
     expansion_roi |-> "25-40%",
     base_case |-> "$2.8M annual revenue"]

(***************************************************************************)
(* _generate_market_intelligence                                           *)
(***************************************************************************)
RECURSIVE MaxSeq(_)
MaxSeq(s) == IF Len(s) = 1 THEN s[1] ELSE Max(Head(s), MaxSeq(Tail(s)))

\* totals that leave the first persona out
generate_market_intelligence_less_one(personas, opportunities) ==
    LET total_market_value ==
            SumSeq([i \in 1..(Len(personas) - 1) |-> personas[i + 1].market_value])
        total_population ==
            SumSeq([i \in 1..(Len(personas) - 1) |->
                        personas[i + 1].estimated_population])
        effectiveness_sum ==
            SumSeq([i \in 1..Len(personas) |-> personas[i].targeting_effectiveness])
        total_opportunity_value ==
            SumSeq([i \in 1..Len(opportunities) |->
                        opportunities[i].estimated_market_size])
    IN  [market_overview |->
            [total_addressable_market |-> total_market_value,
             total_population |-> total_population,
             average_targeting_effectiveness |->
                 PyRound(effectiveness_sum, Len(personas)),
             number_of_segments |-> Len(personas),
             total_opportunity_value |-> total_opportunity_value],
         key_insights |->
            [highest_market_value |->
                 MaxSeq([i \in 1..Len(personas) |-> personas[i].market_value]),
             premium_revenue |-> PyRound(total_opportunity_value, 5)]]

\* a first key insight that takes the market value of the first persona
generate_market_intelligence_first(personas, opportunities) ==
    LET total_market_value ==
            SumSeq([i \in 1..Len(personas) |-> personas[i].market_value])
        total_population ==
            SumSeq([i \in 1..Len(personas) |-> personas[i].estimated_population])
        effectiveness_sum ==
            SumSeq([i \in 1..Len(personas) |-> personas[i].targeting_effectiveness])
        total_opportunity_value ==
            SumSeq([i \in 1..Len(opportunities) |->
                        opportunities[i].estimated_market_size])
    IN  [market_overview |->
            [total_addressable_market |-> total_market_value,
             total_population |-> total_population,
             average_targeting_effectiveness |->
                 PyRound(effectiveness_sum, Len(personas)),
             number_of_segments |-> Len(personas),
             total_opportunity_value |-> total_opportunity_value],
         key_insights |->
            [highest_market_value |-> personas[1].market_value,
             premium_revenue |-> PyRound(total_opportunity_value, 5)]]

\* personas is not empty (max() of no personas raises)
generate_market_intelligence(personas, opportunities) ==
    LET total_market_value ==
            SumSeq([i \in 1..Len(personas) |-> personas[i].market_value])
        total_population ==
            SumSeq([i \in 1..Len(personas) |-> personas[i].estimated_population])
        effectiveness_sum ==
            SumSeq([i \in 1..Len(personas) |-> personas[i].targeting_effectiveness])
        total_opportunity_value ==
            SumSeq([i \in 1..Len(opportunities) |->
                        opportunities[i].estimated_market_size])
    IN  [market_overview |->
            [total_addressable_market |-> total_market_value,
             total_population |-> total_population,
             average_targeting_effectiveness |->
                 PyRound(effectiveness_sum, Len(personas)),
             number_of_segments |-> Len(personas),
             total_opportunity_value |-> total_opportunity_value],
         \* the numbers substituted into key_insights[0] and key_insights[2]
         key_insights |->
            [highest_market_value |->
                 MaxSeq([i \in 1..Len(personas) |-> personas[i].market_value]),
             premium_revenue |-> PyRound(total_opportunity_value, 5)]]

(***************************************************************************)
(* The generators as the orchestrator and other callers see them: the      *)
(* table returned, the state the global generator is left in, and the      *)
(* calls made on it, in order.                                             *)
(***************************************************************************)
SeedEvent(s) == [op |-> "seed", n |-> s]
DrawEvent(n) == [op |-> "draw", n |-> n]

\* the generators without their np.random.seed(42): each draws on from the
\* state it finds the global generator in
generate_spending_data_unseeded(key, r) ==
    LET n == Len(Counties) * Len(categories)
    IN  [table |-> SpendingRows(key, Counties, r),
         rng |-> [r EXCEPT !.pos = @ + n],
         events |-> <<DrawEvent(n)>>]

generate_demographic_data_unseeded(key, r) ==
    LET n == Len(Counties) * DemographicDraws
    IN  [table |-> DemographicRows(key, Counties, r),
         rng |-> [r EXCEPT !.pos = @ + n],
         events |-> <<DrawEvent(n)>>]

generate_mobility_data(key, r) ==
    LET r0 == np_random_seed(SEED)
        n  == Len(Counties) * MobilityDraws
    IN  [table |-> MobilityRows(key, Counties, r0),
         rng |-> [r0 EXCEPT !.pos = @ + n],
         events |-> <<SeedEvent(SEED), DrawEvent(n)>>]

generate_spending_data(key, r) ==
    LET r0 == np_random_seed(SEED)
        n  == Len(Counties) * Len(categories)
    IN  [table |-> SpendingRows(key, Counties, r0),
         rng |-> [r0 EXCEPT !.pos = @ + n],
         events |-> <<SeedEvent(SEED), DrawEvent(n)>>]

generate_demographic_data(key, r) ==
    LET r0 == np_random_seed(SEED)
        n  == Len(Counties) * DemographicDraws
    IN  [table |-> DemographicRows(key, Counties, r0),
         rng |-> [r0 EXCEPT !.pos = @ + n],
         events |-> <<SeedEvent(SEED), DrawEvent(n)>>]

(***************************************************************************)
(* State.                                                                  *)
(***************************************************************************)
VARIABLES
    prng,                  \* which stream np.random stands for (never changes)
    rng,                   \* the state of the process-wide generator
    kmeans_fit,            \* KMeans(random_state=42), where evaluated
    now,                   \* datetime.now()
    pc,                    \* the orchestrator's position
    mobility_data, spending_data, demographic_data,
    segmentation_results, persona_insights, business_opportunities,
    predictive_insights, market_intelligence,
    result,                \* the value last returned, <<>> if none
    error,                 \* the exception that ended the last call, or "none"
    runs,                  \* calls of generate_comprehensive_analysis so far
    rng_trace,             \* the calls the current run made on the generator
    returned,              \* every result returned so far, analysis_date left out
    generated,             \* every table each generator returned so far
    entries,               \* (generator, generator state at entry) of those calls
    entry_seeds,           \* the seeds the global generator had as the runs began
    viz,                   \* what create_advanced_visualizations returned, call
                           \* by call, for the result last returned
    site                   \* build_static: the position of main, the dist
                           \* directory and what the file system allows

vars == <<prng, rng, kmeans_fit, now, pc, mobility_data, spending_data,
          demographic_data, segmentation_results, persona_insights,
          business_opportunities, predictive_insights, market_intelligence,
          result, error, runs, rng_trace, returned, generated, entries,
          entry_seeds, viz, site>>

locals == <<mobility_data, spending_data, demographic_data,
            segmentation_results, persona_insights, business_opportunities,
            predictive_insights, market_intelligence>>

history == <<runs, returned, generated, entries, entry_seeds, viz, site>>

\* a seed other code may give the generator
OTHER_SEED == SEED + 1
\* the generator as the interpreter starts it, before any seed() call
Unseeded == [seed |-> 0, pos |-> 0]

\* build_static.main has not been called: no dist directory
NoSite ==
    [pc |-> "idle", dist |-> "absent", index |-> "absent", api |-> 0,
     writable |-> TRUE, faults |-> 0, builds |-> 0, e |-> "none"]

NoLocals ==
    /\ mobility_data = <<>>
    /\ spending_data = <<>>
    /\ demographic_data = <<>>
    /\ segmentation_results = <<>>
    /\ persona_insights = <<>>
    /\ business_opportunities = <<>>
    /\ predictive_insights = <<>>
    /\ market_intelligence = <<>>

Init ==
    /\ prng = 1
    /\ rng = Unseeded
    /\ kmeans_fit = {}
    /\ now = 0
    /\ pc = "idle"
    /\ NoLocals
    /\ result = <<>>
    /\ error = "none"
    /\ runs = 0
    /\ rng_trace = <<>>
    /\ returned = {}
    /\ generated = [mobility |-> {}, spending |-> {}, demographic |-> {}]
    /\ entries = {}
    /\ entry_seeds = {}
    /\ viz = <<>>
    /\ site = NoSite

\* no call of the engine is under way
AtRest == pc \in {"idle", "returned", "raised"}

(***************************************************************************)
(* Other code of the process using the global generator between two calls. *)
(***************************************************************************)
\* np.random.seed(OTHER_SEED), once the engine has used the generator (before
\* that the generator is as the interpreter started it)
EnvSeed ==
    /\ AtRest
    /\ rng.seed = SEED
    /\ rng' = np_random_seed(OTHER_SEED)
    /\ UNCHANGED <<prng, kmeans_fit, now, pc, locals, result, error, runs,
                   rng_trace, returned, generated, entries, entry_seeds, viz, site>>

\* one variate drawn; at most MaxEnvDraws in a row after EnvSeed
EnvDraw ==
    /\ AtRest
    /\ rng.seed = OTHER_SEED
    /\ rng.pos < MaxEnvDraws
    /\ rng' = Advance(rng)
    /\ UNCHANGED <<prng, kmeans_fit, now, pc, locals, result, error, runs,
                   rng_trace, returned, generated, entries, entry_seeds, viz, site>>

(***************************************************************************)
(* generate_comprehensive_analysis, one action per statement.  An          *)
(* exception leaves the call at once (Raise): no later statement runs and  *)
(* nothing is returned.  The local variables keep, for inspection, the     *)
(* values they had when the call ended; the next call starts afresh.       *)
(***************************************************************************)
\* an orchestrator that catches the exception and returns what it has
RaiseCaught(e) ==
    /\ pc' = "returned"
    /\ error' = "none"
    /\ result' = <<[value |-> [personas |-> persona_insights],
                    analysis_date |-> now]>>
    /\ UNCHANGED locals

Raise(e) ==
    /\ pc' = "raised"
    /\ error' = e
    /\ UNCHANGED <<locals, result>>

Start ==
    /\ AtRest
    /\ runs < MaxRuns
    /\ runs' = runs + 1
    /\ entry_seeds' = entry_seeds \cup {rng.seed}
    /\ pc' = "mobility"
    /\ rng_trace' = <<>>
    /\ result' = <<>>
    /\ error' = "none"
    /\ mobility_data' = <<>>
    /\ spending_data' = <<>>
    /\ demographic_data' = <<>>
    /\ segmentation_results' = <<>>
    /\ persona_insights' = <<>>
    /\ business_opportunities' = <<>>
    /\ predictive_insights' = <<>>
    /\ market_intelligence' = <<>>
    /\ viz' = <<>>
    /\ UNCHANGED <<prng, rng, kmeans_fit, now, returned, generated, entries,
                   site>>

StageMobility ==
    /\ pc = "mobility"
    /\ LET out == generate_mobility_data(prng, rng)
       IN  /\ mobility_data' = out.table
           /\ rng' = out.rng
           /\ rng_trace' = rng_trace \o out.events
    /\ pc' = "spending"
    /\ UNCHANGED <<prng, kmeans_fit, now, spending_data, demographic_data,
                   segmentation_results, persona_insights,
                   business_opportunities, predictive_insights,
                   market_intelligence, result, error, history>>

StageSpending ==
    /\ pc = "spending"
    /\ LET out == generate_spending_data(prng, rng)
       IN  /\ spending_data' = out.table
           /\ rng' = out.rng
           /\ rng_trace' = rng_trace \o out.events
    /\ pc' = "demographic"
    /\ UNCHANGED <<prng, kmeans_fit, now, mobility_data, demographic_data,
                   segmentation_results, persona_insights,
                   business_opportunities, predictive_insights,
                   market_intelligence, result, error, history>>

StageDemographic ==
    /\ pc = "demographic"
    /\ LET out == generate_demographic_data(prng, rng)
       IN  /\ demographic_data' = out.table
           /\ rng' = out.rng
           /\ rng_trace' = rng_trace \o out.events
    /\ pc' = "segmentation"
    /\ UNCHANGED <<prng, kmeans_fit, now, mobility_data, spending_data,
                   segmentation_results, persona_insights,
                   business_opportunities, predictive_insights,
                   market_intelligence, result, error, history>>

StageSegmentation ==
    /\ pc = "segmentation"
    /\ LET e == SegmentationError(mobility_data, spending_data)
           X == fit_transform(FeatureData(CombinedData(mobility_data,
                                                       spending_data)))
       IN  IF e # "none"
           THEN /\ Raise(e)
                /\ UNCHANGED kmeans_fit
           ELSE \E labels \in LabelChoices(X, kmeans_fit) :
                /\ kmeans_fit' = kmeans_fit \cup {[X |-> X, labels |-> labels]}
                /\ segmentation_results' =
                       <<perform_segmentation_analysis(mobility_data,
                                                       spending_data, labels)>>
                /\ pc' = "personas"
                /\ UNCHANGED <<mobility_data, spending_data, demographic_data,
                               persona_insights, business_opportunities,
                               predictive_insights, market_intelligence,
                               result, error>>
    /\ UNCHANGED <<prng, rng, now, rng_trace, history>>

StagePersonas ==
    /\ pc = "personas"
    /\ LET out == generate_persona_insights(prng, segmentation_results[1], rng)
       IN  /\ rng' = [rng EXCEPT !.pos = @ + out.draws]
           /\ rng_trace' = rng_trace \o <<DrawEvent(out.draws)>>
           /\ IF out.error # "none"
              THEN Raise(out.error)
              ELSE /\ persona_insights' = out.personas
                   /\ pc' = "opportunities"
                   /\ UNCHANGED <<mobility_data, spending_data,
                                  demographic_data, segmentation_results,
                                  business_opportunities, predictive_insights,
                                  market_intelligence, result, error>>
    /\ UNCHANGED <<prng, kmeans_fit, now, history>>

StageOpportunities ==
    /\ pc = "opportunities"
    /\ business_opportunities' = identify_business_opportunities(persona_insights)
    /\ pc' = "predictive"
    /\ UNCHANGED <<prng, rng, kmeans_fit, now, mobility_data, spending_data,
                   demographic_data, segmentation_results, persona_insights,
                   predictive_insights, market_intelligence, result, error,
                   rng_trace, history>>

StagePredictive ==
    /\ pc = "predictive"
    /\ predictive_insights' =
           <<generate_predictive_insights(mobility_data, spending_data)>>
    /\ pc' = "market"
    /\ UNCHANGED <<prng, rng, kmeans_fit, now, mobility_data, spending_data,
                   demographic_data, segmentation_results, persona_insights,
                   business_opportunities, market_intelligence, result, error,
                   rng_trace, history>>

StageMarket ==
    /\ pc = "market"
    /\ market_intelligence' =
           <<generate_market_intelligence(persona_insights,
                                          business_opportunities)>>
    /\ pc' = "return"
    /\ UNCHANGED <<prng, rng, kmeans_fit, now, mobility_data, spending_data,
                   demographic_data, segmentation_results, persona_insights,
                   business_opportunities, predictive_insights, result, error,
                   rng_trace, history>>

\* the returned dict without data_summary.analysis_date
AnalysisResult ==
    [personas |-> persona_insights,
     opportunities |-> business_opportunities,
     insights |-> market_intelligence[1],
     predictive_analytics |-> predictive_insights[1],
     segmentation_results |-> segmentation_results[1],
     data_summary |->
        [mobility_records |-> Len(mobility_data),
         spending_records |-> Len(spending_data),
         demographic_records |-> Len(demographic_data)]]

Return ==
    /\ pc = "return"
    /\ result' = <<[value |-> AnalysisResult, analysis_date |-> now]>>
    /\ returned' = returned \cup {AnalysisResult}
    /\ now' = now + 1
    /\ pc' = "returned"
    /\ UNCHANGED <<prng, rng, kmeans_fit, locals, error, runs, rng_trace,
                   generated, entries, entry_seeds, viz, site>>

(***************************************************************************)
(* create_advanced_visualizations(analysis_results), called by the         *)
(* dashboard with a result the engine returned.                            *)
(***************************************************************************)
\* a mapping that files the first persona's trends under every name
SeasonalVizOfFirst(personas) ==
    [name \in {personas[i].persona_name : i \in 1..Len(personas)} |->
        personas[1].seasonal_trends]

\* the dict seasonal_viz: one entry per persona_name, a later persona of the
\* same name overwriting an earlier one
SeasonalViz(personas) ==
    [name \in {personas[i].persona_name : i \in 1..Len(personas)} |->
        LET last == CHOOSE i \in 1..Len(personas) :
                        /\ personas[i].persona_name = name
                        /\ \A j \in (i + 1)..Len(personas) :
                              personas[j].persona_name # name
        IN  personas[last].seasonal_trends]

\* the value returned for analysis_results at time t
create_advanced_visualizations(analysis_results, t) ==
    LET personas == analysis_results.personas
        opportunities == analysis_results.opportunities
    IN  [market_analysis |->
            [persona_names |-> [i \in 1..Len(personas) |-> personas[i].persona_name],
             market_values |-> [i \in 1..Len(personas) |-> personas[i].market_value],
             populations |->
                 [i \in 1..Len(personas) |-> personas[i].estimated_population],
             effectiveness |->
                 [i \in 1..Len(personas) |-> personas[i].targeting_effectiveness]],
         opportunity_analysis |->
            [opportunity_types |->
                 [i \in 1..Len(opportunities) |-> opportunities[i].opportunity_type],
             market_sizes |->
                 [i \in 1..Len(opportunities) |->
                     opportunities[i].estimated_market_size],
             roi_ranges |->
                 [i \in 1..Len(opportunities) |-> opportunities[i].expected_roi],
             investment_levels |->
                 [i \in 1..Len(opportunities) |-> opportunities[i].investment_level]],
         seasonal_trends |-> SeasonalViz(personas),
         generated_at |-> t]

\* one call on the result last returned; the clock has moved on by the next
Visualize ==
    /\ pc = "returned"
    /\ Len(viz) < MaxVizCalls
    /\ viz' = Append(viz, create_advanced_visualizations(result[1].value, now))
    /\ now' = now + 1
    /\ UNCHANGED <<prng, rng, kmeans_fit, pc, locals, result, error, runs,
                   rng_trace, returned, generated, entries, entry_seeds, site>>

Next ==
    \/ EnvSeed
    \/ EnvDraw
    \/ Start
    \/ StageMobility
    \/ StageSpending
    \/ StageDemographic
    \/ StageSegmentation
    \/ StagePersonas
    \/ StageOpportunities
    \/ StagePredictive
    \/ StageMarket
    \/ Return
    \/ Visualize

Spec == Init /\ [][Next]_vars

(***************************************************************************)
(* The generators called on their own (each is a method of the engine),    *)
(* whatever state other code left the global generator in.                 *)
(***************************************************************************)
MayEnter(gen) ==
    Cardinality(entries \cup {[gen |-> gen, rng |-> rng]}) <= MaxGenCalls

CallMobility ==
    /\ AtRest
    /\ MayEnter("mobility")
    /\ LET out == generate_mobility_data(prng, rng)
       IN  /\ mobility_data' = out.table
           /\ rng' = out.rng
           /\ generated' = [generated EXCEPT !.mobility = @ \cup {out.table}]
    /\ entries' = entries \cup {[gen |-> "mobility", rng |-> rng]}
    /\ UNCHANGED <<prng, kmeans_fit, now, pc, spending_data, demographic_data,
                   segmentation_results, persona_insights,
                   business_opportunities, predictive_insights,
                   market_intelligence, result, error, runs, rng_trace,
                   returned, entry_seeds, viz, site>>

CallSpending ==
    /\ AtRest
    /\ MayEnter("spending")
    /\ LET out == generate_spending_data(prng, rng)
       IN  /\ spending_data' = out.table
           /\ rng' = out.rng
           /\ generated' = [generated EXCEPT !.spending = @ \cup {out.table}]
    /\ entries' = entries \cup {[gen |-> "spending", rng |-> rng]}
    /\ UNCHANGED <<prng, kmeans_fit, now, pc, mobility_data, demographic_data,
                   segmentation_results, persona_insights,
                   business_opportunities, predictive_insights,
                   market_intelligence, result, error, runs, rng_trace,
                   returned, entry_seeds, viz, site>>

CallDemographic ==
    /\ AtRest
    /\ MayEnter("demographic")
    /\ LET out == generate_demographic_data(prng, rng)
       IN  /\ demographic_data' = out.table
           /\ rng' = out.rng
           /\ generated' = [generated EXCEPT !.demographic = @ \cup {out.table}]
    /\ entries' = entries \cup {[gen |-> "demographic", rng |-> rng]}
    /\ UNCHANGED <<prng, kmeans_fit, now, pc, mobility_data, spending_data,
                   segmentation_results, persona_insights,
                   business_opportunities, predictive_insights,
                   market_intelligence, result, error, runs, rng_trace,
                   returned, entry_seeds, viz, site>>

NextGen ==
    \/ EnvSeed
    \/ EnvDraw
    \/ CallMobility
    \/ CallSpending
    \/ CallDemographic

InitGen ==
    /\ prng \in 1..NumStreams
    /\ rng = Unseeded
    /\ kmeans_fit = {}
    /\ now = 0
    /\ pc = "idle"
    /\ NoLocals
    /\ result = <<>>
    /\ error = "none"
    /\ runs = 0
    /\ rng_trace = <<>>
    /\ returned = {}
    /\ generated = [mobility |-> {}, spending |-> {}, demographic |-> {}]
    /\ entries = {}
    /\ entry_seeds = {}
    /\ viz = <<>>
    /\ site = NoSite

SpecGen == InitGen /\ [][NextGen]_vars

(***************************************************************************)
(* The stages after the generators, called with tables other than the      *)
(* generated ones: the mobility table keeps the first m counties, the      *)
(* spending table the last s counties, of tables generated from offset v   *)
(* of the stream.                                                          *)
(***************************************************************************)
UnitMobility(key, m, v) ==
    SubSeq(MobilityRows(key, UnitCounties, [seed |-> SEED, pos |-> v]), 1, m)

UnitSpending(key, s, v) ==
    LET all == SpendingRows(key, UnitCounties, [seed |-> SEED, pos |-> v])
        rows_per_county == Len(categories) + 1
    IN  SubSeq(all, (Len(UnitCounties) - s) * rows_per_county + 1, Len(all))

\* a spending table with rows of the category 'restaurants' left out: those
\* of its first region (gap 1), all of them (gap 2), all but those of its last
\* region (gap 3); gap 0 leaves the table whole
WithGap(spending, gap) ==
    IF gap = 0 \/ spending = <<>> THEN spending
    ELSE LET first == spending[1].county_fips
             last == spending[Len(spending)].county_fips
             Keep(row) ==
                \/ row.category # "restaurants"
                \/ gap = 1 /\ row.county_fips # first
                \/ gap = 3 /\ row.county_fips = last
         IN  SelectSeq(spending, Keep)

InitUnit ==
    /\ prng = 1
    /\ \E m \in 0..Len(UnitCounties), s \in 0..Len(UnitCounties),
          v \in 0..(NumVariants - 1), gap \in 0..3 :
        /\ mobility_data = UnitMobility(prng, m, v)
        /\ spending_data = WithGap(UnitSpending(prng, s, v), gap)
        /\ rng = [seed |-> OTHER_SEED, pos |-> v]
    /\ kmeans_fit = {}
    /\ now = 0
    /\ pc = "segmentation"
    /\ demographic_data = <<>>
    /\ segmentation_results = <<>>
    /\ persona_insights = <<>>
    /\ business_opportunities = <<>>
    /\ predictive_insights = <<>>
    /\ market_intelligence = <<>>
    /\ result = <<>>
    /\ error = "none"
    /\ runs = 1
    /\ rng_trace = <<>>
    /\ returned = {}
    /\ generated = [mobility |-> {}, spending |-> {}, demographic |-> {}]
    /\ entries = {}
    /\ entry_seeds = {}
    /\ viz = <<>>
    /\ site = NoSite

NextUnit ==
    \/ StageSegmentation
    \/ StagePersonas
    \/ StageOpportunities
    \/ StagePredictive
    \/ StageMarket
    \/ Return

SpecUnit == InitUnit /\ [][NextUnit]_vars

(***************************************************************************)
(* build_static.py: main builds the static site in ./dist.  The file       *)
(* system is the environment: ./dist may be absent, a directory or         *)
(* something that is not a directory; the working directory may refuse     *)
(* new entries; a write may fail.  index is what dist/index.html holds:    *)
(* "absent", "stale" (left by something else), "partial" (a write that     *)
(* failed), "full" (the generated page) or "fallback".                     *)
(***************************************************************************)
engine == <<prng, rng, kmeans_fit, now, pc, locals, result, error, runs,
            rng_trace, returned, generated, entries, entry_seeds, viz>>

\* create_dist_directory: rmtree of what exists, then mkdir; e is the
\* exception it ends with.  rmtree refuses what is not a directory; in a
\* directory that takes no change it empties dist and fails to remove it.
create_dist_directory(st) ==
    IF st.dist = "file" THEN [st EXCEPT !.e = "NotADirectoryError"]
    ELSE IF ~st.writable
        THEN IF st.dist = "dir"
             THEN [st EXCEPT !.index = "absent", !.api = 0,
                             !.e = "PermissionError"]
             ELSE [st EXCEPT !.e = "PermissionError"]
    ELSE [st EXCEPT !.dist = "dir", !.index = "absent", !.api = 0]

\* open(path, "w") and f.write(text): the file after a write that succeeded,
\* after an open that failed (the file is as it was) and after a write that
\* failed (the file is cut short)
Written(st, text, outcome) ==
    IF outcome = "ok" THEN [st EXCEPT !.index = text]
    ELSE IF outcome = "open" THEN [st EXCEPT !.faults = @ - 1, !.e = "OSError"]
    ELSE [st EXCEPT !.index = "partial", !.faults = @ - 1, !.e = "OSError"]

\* the outcomes a write can have
WriteOutcomes(st) == IF st.faults > 0 THEN {"ok", "open", "write"} ELSE {"ok"}

\* where the try block goes on: the next statement, or the handler
Continue(st, next) ==
    [st EXCEPT !.pc = IF st.e = "none" THEN next ELSE "except"]

BuildStart ==
    /\ site.pc \in {"idle", "returned", "raised"}
    /\ site.builds < MaxBuilds
    /\ site' = [site EXCEPT !.pc = "create_dist", !.builds = @ + 1,
                            !.e = "none"]
    /\ UNCHANGED engine

BuildCreateDist ==
    /\ site.pc = "create_dist"
    /\ site' = Continue(create_dist_directory(site), "demo_data")
    /\ UNCHANGED engine

\* create_minimal_demo_data: a literal
BuildDemoData ==
    /\ site.pc = "demo_data"
    /\ site' = [site EXCEPT !.pc = "html"]
    /\ UNCHANGED engine

\* create_static_html: the page is put together and written
BuildStaticHtml ==
    /\ site.pc = "html"
    /\ \E outcome \in WriteOutcomes(site) :
          site' = Continue(Written(site, "full", outcome), "api")
    /\ UNCHANGED engine

\* create_api_endpoints: dist/api and its four files, or the first k of them
BuildApiEndpoints ==
    /\ site.pc = "api"
    /\ \/ site' = [site EXCEPT !.api = 4, !.pc = "verify"]
       \/ /\ site.faults > 0
          /\ \E k \in 0..3 :
                site' = [site EXCEPT !.api = k, !.faults = @ - 1,
                                     !.e = "OSError", !.pc = "except"]
    /\ UNCHANGED engine

\* index.html exists and is larger than 1000 bytes (the generated page is;
\* nothing else is)
BuildVerify ==
    /\ site.pc = "verify"
    /\ site' = IF site.index = "full"
               THEN [site EXCEPT !.pc = "returned"]
               ELSE [site EXCEPT !.e = "Exception", !.pc = "except"]
    /\ UNCHANGED engine

\* the handler: mkdir(exist_ok=True), then the fallback page is written; what
\* the handler raises leaves main
BuildExcept ==
    /\ site.pc = "except"
    /\ IF site.dist = "file"
       THEN site' = [site EXCEPT !.e = "FileExistsError", !.pc = "raised"]
       ELSE IF site.dist = "absent" /\ ~site.writable
       THEN site' = [site EXCEPT !.e = "PermissionError", !.pc = "raised"]
       ELSE \E outcome \in WriteOutcomes(site) :
              LET made == [site EXCEPT !.dist = "dir", !.e = "none"]
                  out == Written(made, "fallback", outcome)
              IN  site' = [out EXCEPT !.pc = IF out.e = "none" THEN "returned"
                                            ELSE "raised"]
    /\ UNCHANGED engine

NextBuild ==
    \/ BuildStart
    \/ BuildCreateDist
    \/ BuildDemoData
    \/ BuildStaticHtml
    \/ BuildApiEndpoints
    \/ BuildVerify
    \/ BuildExcept

InitBuild ==
    /\ prng = 1
    /\ rng = Unseeded
    /\ kmeans_fit = {}
    /\ now = 0
    /\ pc = "idle"
    /\ NoLocals
    /\ result = <<>>
    /\ error = "none"
    /\ runs = 0
    /\ rng_trace = <<>>
    /\ returned = {}
    /\ generated = [mobility |-> {}, spending |-> {}, demographic |-> {}]
    /\ entries = {}
    /\ entry_seeds = {}
    /\ viz = <<>>
    /\ \E dist \in {"absent", "dir", "file"}, writable \in BOOLEAN,
          faults \in 0..MaxFaults :
        \E index \in (IF dist = "dir" THEN {"absent", "stale"} ELSE {"absent"}) :
            site = [NoSite EXCEPT !.dist = dist, !.index = index,
                                  !.writable = writable, !.faults = faults]

SpecBuild == InitBuild /\ [][NextBuild]_vars

(***************************************************************************)
(* Properties.                                                             *)
(***************************************************************************)
\* the regions of the mobility table that the inner join keeps
SurvivingRegions ==
    {mobility_data[i].county_fips : i \in 1..Len(mobility_data)}
        \cap PivotIndex(spending_data)

\* C1: once the segmentation has returned, the 'counties' lists of its cluster
\* profiles partition the regions that survive the join: every list holds
\* surviving regions only and none twice, every surviving region is in the
\* list of exactly one cluster, and the cluster sizes add up to the number of
\* surviving regions.
C1_CountiesPartition ==
    segmentation_results # <<>> =>
        LET profiles == segmentation_results[1].cluster_profiles
        IN  /\ \A c \in 1..Len(profiles) :
                  /\ Range(profiles[c].counties) \subseteq SurvivingRegions
                  /\ Cardinality(Range(profiles[c].counties)) = Len(profiles[c].counties)
                  /\ profiles[c].size = Len(profiles[c].counties)
            /\ \A county \in SurvivingRegions :
                  Cardinality({c \in 1..Len(profiles) :
                                  county \in Range(profiles[c].counties)}) = 1
            /\ SumSeq([c \in 1..Len(profiles) |-> profiles[c].size])
                  = Cardinality(SurvivingRegions)

\* a segmentation of a join that dropped a mobility row, with a cluster of
\* several regions and an empty cluster
C1_Witness ==
    /\ segmentation_results # <<>>
    /\ Len(mobility_data) > Cardinality(SurvivingRegions)
    /\ \E c, d \in 1..N_CLUSTERS :
          /\ segmentation_results[1].cluster_profiles[c].size >= 2
          /\ segmentation_results[1].cluster_profiles[d].size = 0

\* the segmentation has been called and has ended, one way or the other
SegmentationEnded == pc # "segmentation"

C3_PersonaClusterBijection ==
    result # <<>> =>
        LET personas == result[1].value.personas
            profiles == result[1].value.segmentation_results.cluster_profiles
        IN  /\ Len(personas) = Len(profiles)
            /\ Len(personas) = N_CLUSTERS
            /\ \A i \in 1..Len(personas) :
                  /\ Len(personas[i].cluster_ids) = 1
                  /\ \E c \in 1..Len(profiles) :
                        profiles[c].cluster_id = personas[i].cluster_ids[1]
            /\ \A i, j \in 1..Len(personas) :
                  i # j => personas[i].cluster_ids # personas[j].cluster_ids
            /\ {personas[i].cluster_ids[1] : i \in 1..Len(personas)}
                  = 0..(N_CLUSTERS - 1)

\* a full run over the generated tables has returned its result
C3_Witness ==
    /\ pc = "returned"
    /\ result # <<>>
    /\ Len(result[1].value.personas) = N_CLUSTERS
    /\ result[1].value.data_summary.mobility_records = Len(Counties)
    /\ result[1].value.data_summary.spending_records
          = Len(Counties) * (Len(categories) + 1)

\* C4: in every result, market_overview.total_addressable_market is the sum
\* of the personas' market_value and market_overview.total_population the
\* sum of their estimated_population.
C4_AggregateConsistency ==
    result # <<>> =>
        LET personas == result[1].value.personas
            overview == result[1].value.insights.market_overview
            RECURSIVE ValueUpTo(_), PopulationUpTo(_)
            ValueUpTo(n) ==
                IF n = 0 THEN 0 ELSE ValueUpTo(n - 1) + personas[n].market_value
            PopulationUpTo(n) ==
                IF n = 0 THEN 0
                ELSE PopulationUpTo(n - 1) + personas[n].estimated_population
        IN  /\ overview.total_addressable_market = ValueUpTo(Len(personas))
            /\ overview.total_population = PopulationUpTo(Len(personas))

\* a result whose personas differ in population and in market value
C4_Witness ==
    /\ result # <<>>
    /\ \E i, j \in 1..Len(result[1].value.personas) :
          /\ result[1].value.personas[i].estimated_population
                # result[1].value.personas[j].estimated_population
          /\ result[1].value.personas[i].market_value
                # result[1].value.personas[j].market_value
    /\ result[1].value.insights.market_overview.total_addressable_market > 0


\* 0.6 + 0.3 * mean + u clipped at 0.95 and rounded, in 1e-3, of the column
\* mean m (in 1e-3) and the perturbation u (in 1e-6)
ScoreOf(m, u) ==
    PyRound(Min(950000, 600000 + (m.sum * 300) \div m.n + u), 1000)

\* C5: every persona's targeting_effectiveness lies in [0, 0.95], between
\* the scores that the perturbations 0 and 0.1 give for the mean membership
\* ratio of the persona's cluster.
C5_EffectivenessBounded ==
    persona_insights # <<>> =>
        \A i \in 1..Len(persona_insights) :
            LET score == persona_insights[i].targeting_effectiveness
                m == segmentation_results[1].cluster_profiles[i].avg_member_ratio
            IN  /\ 0 <= score
                /\ score <= 950
                /\ ScoreOf(m, 0) <= score
                /\ score <= ScoreOf(m, 100000)

\* personas of which one has the score 0.95 and another a lower one
C5_Witness ==
    /\ persona_insights # <<>>
    /\ \E i, j \in 1..Len(persona_insights) :
          /\ persona_insights[i].targeting_effectiveness = 950
          /\ persona_insights[j].targeting_effectiveness < 950
          /\ persona_insights[j].targeting_effectiveness
                > ScoreOf(segmentation_results[1].cluster_profiles[j].avg_member_ratio, 0)

\* the category rows (the 'total' row left out) of a county in spending_data
CategoryRows(county) ==
    SelectSeq(spending_data,
              LAMBDA row : row.county_fips = county /\ row.category # "total")
\* the 'total' rows of a county in spending_data
TotalRows(county) ==
    SelectSeq(spending_data,
              LAMBDA row : row.county_fips = county /\ row.category = "total")

\* C6: for every region of the generated spending table, the
\* spending_proportion values of its six category rows add up to 1.0.  The
\* proportions are multiples of 0.001, so a sum within 1e-6 of 1.0 is 1.0.
C6_ProportionsSumToOne ==
    \A county \in PivotIndex(spending_data) :
        LET rows == CategoryRows(county)
        IN  SumSeq([i \in 1..Len(rows) |-> rows[i].spending_proportion]) = 1000

\* C7: for every region of the generated spending table, the spending_amount
\* of its 'total' row is the sum of the spending_amount of its category rows.
C7_TotalIsSumOfRows ==
    \A county \in PivotIndex(spending_data) :
        LET rows == CategoryRows(county)
        IN  \A t \in 1..Len(TotalRows(county)) :
                TotalRows(county)[t].spending_amount
                    = SumSeq([i \in 1..Len(rows) |-> rows[i].spending_amount])

\* the places of rng_trace where the run seeded the generator
SeedPlaces == {i \in 1..Len(rng_trace) : rng_trace[i].op = "seed"}
\* the generators the run has called so far
GeneratorsDone ==
    IF pc \in {"idle", "mobility"} THEN 0
    ELSE IF pc = "spending" THEN 1
    ELSE IF pc = "demographic" THEN 2
    ELSE 3

\* C8 as stated: a run that has returned seeded the generator exactly once,
\* before any draw.
C8_SeededOnce ==
    pc = "returned" =>
        /\ Cardinality(SeedPlaces) = 1
        /\ rng_trace[1].op = "seed"

\* C8: a run seeds the generator once at the start of each of its three
\* generators, always with SEED: the first seeding comes before every draw
\* of the run, the second and third after draws of the run, each seeding is
\* followed by the draws of its generator, and after the third the generator
\* is not seeded again until the run ends.
C8_SeededPerGenerator ==
    /\ SeedPlaces = {2 * g - 1 : g \in 1..GeneratorsDone}
    /\ \A i \in SeedPlaces :
          /\ rng_trace[i].n = SEED
          /\ i < Len(rng_trace)
          /\ rng_trace[i + 1].op = "draw"
          /\ rng_trace[i + 1].n > 0

\* a run that returned: three seedings, the persona draws after the third
C8_Witness ==
    /\ pc = "returned"
    /\ Cardinality(SeedPlaces) = 3
    /\ Len(rng_trace) = 7
    /\ rng_trace[7] = DrawEvent(N_CLUSTERS * PersonaDraws)
    /\ rng = [seed |-> SEED,
              pos |-> Len(Counties) * DemographicDraws + N_CLUSTERS * PersonaDraws]

GeneratorNames == {"mobility", "spending", "demographic"}

\* C9: whatever state the global generator is in when a generator is called,
\* the generator returns the same table: all the tables a generator has
\* returned are one table.
C9_GeneratorsDeterministic ==
    \A g \in GeneratorNames : Cardinality(generated[g]) <= 1

\* a generator has been called twice, other code having seeded the global
\* generator and drawn from it a different number of times before each call
C9_Witness ==
    \E e1, e2 \in entries :
        /\ e1.gen = e2.gen
        /\ e1.rng.seed = OTHER_SEED
        /\ e2.rng.seed = OTHER_SEED
        /\ e1.rng.pos # e2.rng.pos
        /\ Cardinality(generated[e1.gen]) = 1

\* C10: all runs return the same result, analysis_date left out: the same
\* cluster profiles, personas, opportunities, market intelligence and
\* predictive insights.
C10_RunsIdentical == Cardinality(returned) <= 1

\* two runs have returned, at different dates, the second begun after other
\* code had seeded the global generator differently
C10_Witness ==
    /\ runs = 2
    /\ pc = "returned"
    /\ now = 2
    /\ entry_seeds = {Unseeded.seed, OTHER_SEED}
    /\ Cardinality(returned) = 1

\* C11: all the structures create_advanced_visualizations has returned for
\* one result are equal, key by key.
C11_VisualizationsIdentical ==
    \A k, l \in 1..Len(viz) : viz[k] = viz[l]

\* C12: a call of create_advanced_visualizations leaves the result as the
\* run returned it; each of the four market_analysis series has one element
\* per persona and each of the four opportunity_analysis series one element
\* per opportunity, in input order and equal to the input field; and
\* seasonal_trends has exactly one entry per persona, that persona's
\* seasonal_trends.
C12_PureProjection ==
    \A k \in 1..Len(viz) :
        LET personas == result[1].value.personas
            opportunities == result[1].value.opportunities
            market == viz[k].market_analysis
            opp == viz[k].opportunity_analysis
            seasonal == viz[k].seasonal_trends
        IN  /\ result[1].value = AnalysisResult
            /\ result[1].value \in returned
            /\ DOMAIN market.persona_names = 1..Len(personas)
            /\ DOMAIN market.market_values = 1..Len(personas)
            /\ DOMAIN market.populations = 1..Len(personas)
            /\ DOMAIN market.effectiveness = 1..Len(personas)
            /\ \A i \in 1..Len(personas) :
                  /\ market.persona_names[i] = personas[i].persona_name
                  /\ market.market_values[i] = personas[i].market_value
                  /\ market.populations[i] = personas[i].estimated_population
                  /\ market.effectiveness[i] = personas[i].targeting_effectiveness
                  /\ personas[i].persona_name \in DOMAIN seasonal
                  /\ seasonal[personas[i].persona_name] = personas[i].seasonal_trends
            /\ Cardinality(DOMAIN seasonal) = Len(personas)
            /\ DOMAIN opp.opportunity_types = 1..Len(opportunities)
            /\ DOMAIN opp.market_sizes = 1..Len(opportunities)
            /\ DOMAIN opp.roi_ranges = 1..Len(opportunities)
            /\ DOMAIN opp.investment_levels = 1..Len(opportunities)
            /\ \A i \in 1..Len(opportunities) :
                  /\ opp.opportunity_types[i] = opportunities[i].opportunity_type
                  /\ opp.market_sizes[i] = opportunities[i].estimated_market_size
                  /\ opp.roi_ranges[i] = opportunities[i].expected_roi
                  /\ opp.investment_levels[i] = opportunities[i].investment_level

\* two calls on a result whose personas differ in market value and in
\* seasonal trends
C12_Witness ==
    /\ Len(viz) = 2
    /\ \E i, j \in 1..Len(result[1].value.personas) :
          /\ result[1].value.personas[i].market_value
                # result[1].value.personas[j].market_value
          /\ result[1].value.personas[i].seasonal_trends
                # result[1].value.personas[j].seasonal_trends
    /\ Len(viz[1].market_analysis.market_values) = N_CLUSTERS

\* C13: every numeric field the generators emit lies in a fixed interval
\* whatever is sampled: member_ratio in [0.3, 0.95], avg_trip_duration_minutes
\* in [5, 30], and the share of college-educated inhabitants, a fraction,
\* in [0, 1].
C13_FieldsClamped ==
    /\ \A i \in 1..Len(mobility_data) :
          /\ mobility_data[i].member_ratio >= 300
          /\ mobility_data[i].member_ratio <= 950
          /\ mobility_data[i].avg_trip_duration_minutes >= 50
          /\ mobility_data[i].avg_trip_duration_minutes <= 300
    /\ \A i \in 1..Len(demographic_data) :
          /\ demographic_data[i].college_educated_pct >= 0
          /\ demographic_data[i].college_educated_pct <= 10000

\* the spending table has a row of the category for the county
HasSpendingRow(county, category) ==
    \E i \in 1..Len(spending_data) :
        /\ spending_data[i].county_fips = county
        /\ spending_data[i].category = category
\* the feature categories
FeatureCategories == {"restaurants", "retail", "entertainment"}
\* enough regions survive the join for the N_CLUSTERS clusters
EnoughRegions == Cardinality(SurvivingRegions) >= N_CLUSTERS

\* C14: a surviving region for which the spending table has no row of a
\* feature category has 0 for that category in its feature row and is a
\* member of a cluster, whether or not other regions have rows of that
\* category (enough regions surviving for the clusters asked for).
C14_MissingCategoryIsZero ==
    (SegmentationEnded /\ EnoughRegions) =>
        \A category \in FeatureCategories :
            \A i \in 1..Len(CombinedData(mobility_data, spending_data)) :
                LET row == CombinedData(mobility_data, spending_data)[i]
                IN  ~HasSpendingRow(row.county_fips, category) =>
                        /\ row[category] = 0
                        /\ segmentation_results # <<>>
                        /\ \E c \in 1..N_CLUSTERS :
                              row.county_fips \in
                                  Range(segmentation_results[1].cluster_profiles[c].counties)

\* C15: once the segmentation has returned, the matrix that was clustered
\* has exactly one row per region found in both tables; a region of the
\* mobility table that the spending table lacks is in no cluster's list, and
\* every cluster's size counts surviving regions only.
C15_InnerJoin ==
    segmentation_results # <<>> =>
        LET profiles == segmentation_results[1].cluster_profiles
        IN  /\ kmeans_fit # {}
            /\ \A f \in kmeans_fit : Len(f.X) = Cardinality(SurvivingRegions)
            /\ \A i \in 1..Len(mobility_data) :
                  mobility_data[i].county_fips \notin PivotIndex(spending_data) =>
                      \A c \in 1..Len(profiles) :
                          mobility_data[i].county_fips \notin Range(profiles[c].counties)
            /\ \A c \in 1..Len(profiles) :
                  profiles[c].size
                      = Cardinality(Range(profiles[c].counties) \cap SurvivingRegions)

\* a segmentation of tables of which the mobility table has a region that
\* the spending table lacks
C15_Witness ==
    /\ segmentation_results # <<>>
    /\ \E i \in 1..Len(mobility_data) :
          mobility_data[i].county_fips \notin PivotIndex(spending_data)
    /\ Len(mobility_data) = Cardinality(SurvivingRegions) + 1

\* the j-th feature column of the joined table, before normalization
FeatureColumn(j) ==
    ColumnOf(FeatureData(CombinedData(mobility_data, spending_data)), j)

\* C16: when a feature column has the same value for all surviving regions
\* (enough of them, the feature columns all there), the segmentation returns
\* its profiles and the normalized column that was clustered is 0 for every
\* region: 0 over the scale 1.
C16_ZeroVariance ==
    (SegmentationEnded /\ EnoughRegions
        /\ FeatureCategories \subseteq PivotColumns(spending_data)) =>
        \A j \in 1..Len(features) :
            ZeroVariance(FeatureColumn(j)) =>
                /\ segmentation_results # <<>>
                /\ kmeans_fit # {}
                /\ \A f \in kmeans_fit : \A i \in 1..Len(f.X) :
                      f.X[i][j] = [centered |-> 0, scale |-> "one"]

\* a segmentation of a table with a constant feature column and one that
\* is not constant
C16_Witness ==
    /\ segmentation_results # <<>>
    /\ \E j, k \in 1..Len(features) :
          /\ ZeroVariance(FeatureColumn(j))
          /\ ~ZeroVariance(FeatureColumn(k))
          /\ \E f \in kmeans_fit :
                /\ f.X[1][j].scale = "one"
                /\ f.X[1][k].scale = "std"

\* the persona synthesis has been called and has ended
PersonasEnded == segmentation_results # <<>> /\ pc # "personas"
\* a cluster profile without member regions, or with a NaN statistic
Degenerate(profile) ==
    \/ profile.size = 0
    \/ IsNaN(profile.avg_trips)
    \/ IsNaN(profile.avg_member_ratio)
    \/ IsNaN(profile.avg_duration)
    \/ IsNaN(profile.avg_restaurant_spending)
\* the segmentation returned a degenerate cluster profile
SomeDegenerate ==
    /\ segmentation_results # <<>>
    /\ \E c \in 1..N_CLUSTERS :
          Degenerate(segmentation_results[1].cluster_profiles[c])

\* C17 as stated: when no region survives the join, or a cluster has no
\* member or a NaN statistic, the call ends with a DataIntegrityError.
C17_DataIntegrityError ==
    \/ SegmentationEnded /\ SurvivingRegions = {}
    \/ PersonasEnded /\ SomeDegenerate
    => pc = "raised" /\ error = "DataIntegrityError"

\* C17: when no region survives the join the segmentation ends with a
\* ValueError or a KeyError of the libraries; when the segmentation returns
\* a profile of a cluster without members, whose statistics are NaN, the
\* persona synthesis ends with a ValueError; in both cases nothing is
\* returned, and no result that is returned has a cluster of size 0 or a NaN
\* statistic.
C17_DegenerateFails ==
    /\ (SegmentationEnded /\ SurvivingRegions = {}) =>
          /\ pc = "raised"
          /\ error \in {"ValueError", "KeyError"}
          /\ segmentation_results = <<>>
          /\ result = <<>>
    /\ (PersonasEnded /\ SomeDegenerate) =>
          /\ pc = "raised"
          /\ error = "ValueError"
          /\ persona_insights = <<>>
          /\ result = <<>>
    /\ result # <<>> =>
          \A c \in 1..N_CLUSTERS :
              ~Degenerate(result[1].value.segmentation_results.cluster_profiles[c])

\* the persona synthesis raised on a cluster without members, beside a
\* cluster of several regions
C17_Witness ==
    /\ pc = "raised"
    /\ error = "ValueError"
    /\ SomeDegenerate
    /\ \E c \in 1..N_CLUSTERS :
          segmentation_results[1].cluster_profiles[c].size >= 2
    /\ result = <<>>

\* the stages after the one that failed have left nothing
NothingAfterSegmentation ==
    /\ segmentation_results = <<>>
    /\ persona_insights = <<>>
    /\ business_opportunities = <<>>
    /\ predictive_insights = <<>>
    /\ market_intelligence = <<>>
NothingAfterPersonas ==
    /\ persona_insights = <<>>
    /\ business_opportunities = <<>>
    /\ predictive_insights = <<>>
    /\ market_intelligence = <<>>

\* C18: when the segmentation or the persona synthesis raises, the call of
\* the orchestrator ends with that very exception: nothing is returned, no
\* later stage has run, and the failing stage has run once only; and a call
\* ends with an exception only if one of its stages raised it.
C18_FailurePropagates ==
    /\ (SegmentationEnded
            /\ SegmentationError(mobility_data, spending_data) # "none") =>
          /\ pc = "raised"
          /\ error = SegmentationError(mobility_data, spending_data)
          /\ result = <<>>
          /\ NothingAfterSegmentation
          /\ kmeans_fit = {}
          /\ rng_trace = <<>>
    /\ (PersonasEnded /\ \E c \in 1..N_CLUSTERS :
            PersonaRaises(segmentation_results[1].cluster_profiles[c])) =>
          /\ pc = "raised"
          /\ error = "ValueError"
          /\ result = <<>>
          /\ NothingAfterPersonas
          /\ Cardinality(kmeans_fit) = 1
          /\ Len(rng_trace) = 1
          /\ rng_trace[1].op = "draw"
          /\ rng_trace[1].n
                = FirstRaising(segmentation_results[1].cluster_profiles) * PersonaDraws
    /\ pc = "raised" =>
          /\ error # "none"
          /\ \/ SegmentationError(mobility_data, spending_data) # "none"
             \/ /\ segmentation_results # <<>>
                /\ FirstRaising(segmentation_results[1].cluster_profiles) # 0

\* a call ended by the exception of the persona synthesis, raised for its
\* third cluster after the personas of two clusters had been built
C18_Witness ==
    /\ pc = "raised"
    /\ error = "ValueError"
    /\ segmentation_results # <<>>
    /\ FirstRaising(segmentation_results[1].cluster_profiles) = 3
    /\ NothingAfterPersonas
    /\ result = <<>>

\* the names and types of the four templates, in the order of the list
TemplateNames ==
    <<"Urban Commuter Pro", "Weekend Explorer", "Tech Innovator",
      "Budget Conscious">>
TemplateTypes ==
    <<"Urban Commuter", "Leisure Cyclist", "Tech Savvy", "Value Seeker">>

\* the position i (from 0) carries template i mod 4
CarriesTemplate(persona, i) ==
    /\ persona.persona_name = TemplateNames[(i % 4) + 1]
    /\ persona.persona_type = TemplateTypes[(i % 4) + 1]
    /\ persona.narrative = i % 4

\* C19: the profiles are visited in ascending cluster id; persona_i is built
\* from cluster i, names it in cluster_ids, and carries the name, the type
\* and the narrative fields of template i mod 4 (Urban Commuter Pro, Weekend
\* Explorer, Tech Innovator, Budget Conscious); a position past the fourth
\* takes the templates again from the first.
C19_TemplateBinding ==
    persona_insights # <<>> =>
        LET profiles == segmentation_results[1].cluster_profiles
        IN  /\ Len(persona_insights) = Len(profiles)
            /\ \A i \in 1..Len(profiles) :
                  /\ profiles[i].cluster_id = i - 1
                  /\ persona_insights[i].persona_id = i - 1
                  /\ persona_insights[i].cluster_ids = <<i - 1>>
                  /\ persona_insights[i].estimated_population
                        = profiles[i].size * POPULATION_SCALE
                  /\ CarriesTemplate(persona_insights[i], i - 1)
            /\ \A i \in 0..(2 * N_CLUSTERS - 1) :
                  CarriesTemplate(Persona(prng, i, profiles[(i % N_CLUSTERS) + 1],
                                          rng), i)

\* a returned analysis whose four personas carry the four templates in order
C19_Witness ==
    /\ pc = "returned"
    /\ Len(persona_insights) = N_CLUSTERS
    /\ persona_insights[1].persona_name = "Urban Commuter Pro"
    /\ persona_insights[2].persona_name = "Weekend Explorer"
    /\ persona_insights[3].persona_name = "Tech Innovator"
    /\ persona_insights[4].persona_name = "Budget Conscious"
    /\ persona_insights[4].cluster_ids = <<3>>

\* the size of the cluster a persona was built from
ClusterSizeOf(persona) ==
    segmentation_results[1].cluster_profiles[persona.persona_id + 1].size

\* population and market value of one persona against the size of its cluster
MarketMetrics(persona) ==
    /\ persona.estimated_population = POPULATION_SCALE * ClusterSizeOf(persona)
    /\ 15 * persona.estimated_population <= persona.market_value
    /\ persona.market_value <= 35 * persona.estimated_population

\* C20, as stated: every cluster, one of size 0 included, gives a persona;
\* its estimated_population is 50000 times the size of the cluster and its
\* market_value lies between 15 and 35 times that population, which makes
\* both 0 for a cluster of size 0.
C20_EveryClusterHasMetrics ==
    PersonasEnded =>
        \A c \in 1..N_CLUSTERS :
            /\ Len(persona_insights) >= c
            /\ persona_insights[c].persona_id = c - 1
            /\ MarketMetrics(persona_insights[c])
            /\ segmentation_results[1].cluster_profiles[c].size = 0 =>
                  /\ persona_insights[c].estimated_population = 0
                  /\ persona_insights[c].market_value = 0

\* C20, amended: every persona that is built has estimated_population 50000
\* times the size of its cluster and market_value between 15 and 35 times
\* that population; its cluster has at least one member, so neither is 0.
\* A cluster of size 0 gives no persona: the persona synthesis raises and no
\* persona of the call is kept.
C20_MarketMetrics ==
    /\ \A i \in 1..Len(persona_insights) :
          /\ MarketMetrics(persona_insights[i])
          /\ ClusterSizeOf(persona_insights[i]) >= 1
          /\ persona_insights[i].estimated_population >= POPULATION_SCALE
          /\ persona_insights[i].market_value > 0
    /\ (PersonasEnded /\ \E c \in 1..N_CLUSTERS :
            segmentation_results[1].cluster_profiles[c].size = 0) =>
          /\ pc = "raised"
          /\ error = "ValueError"
          /\ persona_insights = <<>>

\* a returned analysis with a persona of a cluster of several regions, whose
\* market value lies strictly inside the range
C20_Witness ==
    /\ pc = "returned"
    /\ \E i \in 1..Len(persona_insights) :
          /\ ClusterSizeOf(persona_insights[i]) >= 2
          /\ persona_insights[i].estimated_population
                = 2 * POPULATION_SCALE
          /\ 15 * persona_insights[i].estimated_population
                < persona_insights[i].market_value
          /\ persona_insights[i].market_value
                < 35 * persona_insights[i].estimated_population

\* C21: the opportunity list is the same five-entry catalogue whatever the
\* personas and whatever the state of the generator: every list the stage
\* has produced, and the list the function gives for each persona table ever
\* returned, is the list it gives for no personas at all; the step that
\* produces it draws no variate and leaves the personas as they were.
C21_FixedCatalogue ==
    /\ [](/\ business_opportunities
                \in {<<>>, identify_business_opportunities(<<>>)}
          /\ Len(identify_business_opportunities(persona_insights)) = 5
          /\ identify_business_opportunities(persona_insights)
                = identify_business_opportunities(<<>>)
          /\ \A a \in returned :
                /\ a.opportunities = identify_business_opportunities(<<>>)
                /\ identify_business_opportunities(a.personas) = a.opportunities)
    /\ [][pc = "opportunities" =>
            /\ business_opportunities' = identify_business_opportunities(<<>>)
            /\ persona_insights' = persona_insights
            /\ rng' = rng
            /\ rng_trace' = rng_trace]_vars

\* the catalogue produced in a second run, entered with the generator as
\* other code had seeded it, for personas of unequal market values
C21_Witness ==
    /\ pc = "predictive"
    /\ runs = 2
    /\ Len(business_opportunities) = 5
    /\ entry_seeds = {0, OTHER_SEED}
    /\ returned # {}
    /\ persona_insights[1].market_value # persona_insights[2].market_value

\* C22: the predictive report is the same for every mobility table and every
\* spending table: for the tables of each call, whole, cut or exchanged, it
\* is the report given for two empty tables; the step that produces it draws
\* no variate and leaves the generator and both tables as they were.
C22_FixedReport ==
    /\ [](/\ predictive_insights
                \in {<<>>, <<generate_predictive_insights(<<>>, <<>>)>>}
          /\ generate_predictive_insights(mobility_data, spending_data)
                = generate_predictive_insights(<<>>, <<>>)
          /\ generate_predictive_insights(spending_data, mobility_data)
                = generate_predictive_insights(<<>>, <<>>)
          /\ generate_predictive_insights(mobility_data, <<>>)
                = generate_predictive_insights(<<>>, spending_data))
    /\ [][pc = "predictive" =>
            /\ predictive_insights'
                  = <<generate_predictive_insights(<<>>, <<>>)>>
            /\ rng' = rng
            /\ rng_trace' = rng_trace
            /\ mobility_data' = mobility_data
            /\ spending_data' = spending_data]_vars

\* the report produced for a mobility table of all the regions and a
\* spending table that lacks one of them
C22_Witness ==
    /\ pc = "market"
    /\ predictive_insights # <<>>
    /\ Len(mobility_data) = NumUnitCounties
    /\ Cardinality(PivotIndex(spending_data)) = NumUnitCounties - 1

\* the rows of the joined table, raw values, of the member regions of a profile
MembersOf(combined, profile) ==
    LET IsMember(row) ==
            \E i \in 1..Len(profile.counties) :
                profile.counties[i] = row.county_fips
    IN  SelectSeq(combined, IsMember)

\* the level of a mean sum/n against the breakpoints lo < hi: high above hi,
\* medium above lo and up to hi, low otherwise (no member: low)
LevelOf(sum, n, lo, hi) ==
    IF n > 0 /\ sum > hi * n THEN "high"
    ELSE IF n > 0 /\ sum > lo * n THEN "medium"
    ELSE "low"

\* the three levels of a table of raw rows, by the breakpoints of the claim
LevelsOf(rows) ==
    LET Total(column) == SumSeq([i \in 1..Len(rows) |-> rows[i][column]])
    IN  [mobility_level |-> LevelOf(Total("total_trips"), Len(rows), 8000, 15000),
         engagement |-> LevelOf(Total("member_ratio"), Len(rows), 600, 800),
         dining_preference |->
             LevelOf(Total("restaurants"), Len(rows), 80000, 150000)]

\* values on, just under and just over the breakpoints
\* a row of medium level in the three dimensions
ProbeRow == [total_trips |-> 10000, member_ratio |-> 700, restaurants |-> 100000]
ProbeColumns == <<"total_trips", "member_ratio", "restaurants">>
Probes ==
    <<{7999, 8000, 8001, 14999, 15000, 15001},
      {599, 600, 601, 799, 800, 801},
      {79999, 80000, 80001, 149999, 150000, 150001}>>

\* C23: every cluster profile carries one level of low, medium, high in each
\* of the three dimensions, fixed by strict breakpoints on the mean of the
\* raw values of its member regions (trips 8000 and 15000, member ratio 0.6
\* and 0.8, restaurant spending 80000 and 150000); a mean on a breakpoint
\* takes the lower level, also when it is the mean of two unequal rows
\* (tried, as the segmentation returns, on rows set on and beside each
\* breakpoint).
C23_Breakpoints ==
    segmentation_results # <<>> =>
        LET profiles == segmentation_results[1].cluster_profiles
            combined == CombinedData(mobility_data, spending_data)
        IN  /\ \A c \in 1..Len(profiles) :
                  LET members == MembersOf(combined, profiles[c])
                  IN  /\ profiles[c].characteristics = LevelsOf(members)
                      /\ Len(members) = profiles[c].size
                      /\ \A d \in {"mobility_level", "engagement",
                                    "dining_preference"} :
                            profiles[c].characteristics[d]
                                \in {"low", "medium", "high"}
            /\ pc = "personas" =>
                \A k \in 1..Len(ProbeColumns) : \A p \in Probes[k] :
                  LET column == ProbeColumns[k]
                      row == [ProbeRow EXCEPT ![column] = p]
                      under == [ProbeRow EXCEPT ![column] = p - 1]
                      over == [ProbeRow EXCEPT ![column] = p + 1]
                  IN  /\ characterize_cluster(<<row>>) = LevelsOf(<<row>>)
                      /\ characterize_cluster(<<under, over>>) = LevelsOf(<<row>>)

\* a segmentation whose profiles show two different mobility levels, one of
\* them for a cluster of two regions
C23_Witness ==
    /\ segmentation_results # <<>>
    /\ \E c, d \in 1..N_CLUSTERS :
          /\ segmentation_results[1].cluster_profiles[c].size = 2
          /\ segmentation_results[1].cluster_profiles[c].characteristics.mobility_level
                # segmentation_results[1].cluster_profiles[d].characteristics.mobility_level
          /\ segmentation_results[1].cluster_profiles[d].size >= 1

\* C24: in the market intelligence, number_of_segments is the number of
\* personas, total_opportunity_value is the sum of estimated_market_size
\* over the opportunities, and the value substituted into the first key
\* insight is the greatest market_value of all the personas, whichever
\* persona holds it.
C24_MarketIntelligence ==
    market_intelligence # <<>> =>
        LET overview == market_intelligence[1].market_overview
            highest == market_intelligence[1].key_insights.highest_market_value
        IN  /\ overview.number_of_segments = Len(persona_insights)
            /\ overview.total_opportunity_value
                  = SumSeq([i \in 1..Len(business_opportunities) |->
                               business_opportunities[i].estimated_market_size])
            /\ overview.total_opportunity_value
                  = 350000 + 180000 + 220000 + 280000 + 450000
            /\ \A i \in 1..Len(persona_insights) :
                  persona_insights[i].market_value <= highest
            /\ \E i \in 1..Len(persona_insights) :
                  persona_insights[i].market_value = highest

\* a market intelligence whose highest market value is that of the last
\* persona and not of the first
C24_Witness ==
    /\ market_intelligence # <<>>
    /\ Len(persona_insights) = N_CLUSTERS
    /\ persona_insights[N_CLUSTERS].market_value
          = market_intelligence[1].key_insights.highest_market_value
    /\ persona_insights[1].market_value
          < market_intelligence[1].key_insights.highest_market_value

\* C25: no failure of a build step leaves main: a call of main always
\* returns, and when it has returned dist is a directory whose index.html
\* holds the generated page or the fallback page.
C25_NeverEscapes ==
    /\ site.pc # "raised"
    /\ site.pc = "returned" =>
          /\ site.dist = "dir"
          /\ site.index \in {"full", "fallback"}

\* trip counts, in tenths, from the least allowed up, whole and fractional,
\* and membership ratios, in 1e-4, over the allowed range
TripProbes == {10000, 10001, 10009, 79995, 123457, 180000, 333333}
MemberRatioProbes == {3000, 3333, 5000, 6667, 7501, 9499, 9500}

\* C26: in every generated mobility row member_trips + casual_trips is
\* total_trips or total_trips - 1 and neither count is negative; so it is
\* for every trip count from 1000 and every membership ratio from 0.3 to
\* 0.95 the two counts are computed from.
C26_TripsSplit ==
    /\ \A i \in 1..Len(mobility_data) :
          LET row == mobility_data[i]
          IN  /\ row.total_trips >= 1000
              /\ row.member_trips >= 0
              /\ row.casual_trips >= 0
              /\ row.member_trips + row.casual_trips
                    \in {row.total_trips - 1, row.total_trips}
    /\ mobility_data # <<>> =>
          \A base \in TripProbes, ratio \in MemberRatioProbes :
              /\ TripShare(base, ratio) >= 0
              /\ TripShare(base, 10000 - ratio) >= 0
              /\ TripShare(base, ratio) + TripShare(base, 10000 - ratio)
                    \in {PyInt(base, 10) - 1, PyInt(base, 10)}

\* a generated table with a row whose two counts add up to total_trips and
\* a row where they fall one short
C26_Witness ==
    \E i, j \in 1..Len(mobility_data) :
        /\ mobility_data[i].member_trips + mobility_data[i].casual_trips
              = mobility_data[i].total_trips
        /\ mobility_data[j].member_trips + mobility_data[j].casual_trips
              = mobility_data[j].total_trips - 1

\* C27: in every analysis result, market_overview.total_population is 50000
\* times the number of surviving regions, whatever the cluster assignment
\* (50000 times 7, that is 350000, for the seven regions of the generators).
C27_TotalPopulation ==
    /\ 50000 * Len(counties) = 350000
    /\ market_intelligence # <<>> =>
          /\ market_intelligence[1].market_overview.total_population
                = 50000 * Cardinality(SurvivingRegions)
          /\ Len(CombinedData(mobility_data, spending_data))
                = Cardinality(SurvivingRegions)
    /\ pc = "returned" =>
          result[1].value.insights.market_overview.total_population
              = 50000 * Cardinality(SurvivingRegions)

\* a returned result over five surviving regions, one cluster holding two of
\* them and its persona not the first: the total population is 250000
C27_Witness ==
    /\ pc = "returned"
    /\ Cardinality(SurvivingRegions) = 5
    /\ result[1].value.insights.market_overview.total_population = 250000
    /\ result[1].value.personas[3].estimated_population = 100000

====
